---- MODULE Spec2Model ----
(***************************************************************************)
(* A model of behavior3go's scoped Blackboard (core/Blackboard.go), of the *)
(* Parallel composite (composites/Parallel.go) and of the Wait action.     *)
(*                                                                         *)
(* The specifications of the module:                                       *)
(*   Spec         - a Blackboard built over an empty Storage (or none),    *)
(*                  driven by Set / SetTree / SetMem / Remove / Get        *)
(*   SpecHydrate  - NewBlackboard(storage) replaying persisted entries     *)
(*   SpecParallel - one OnTick of a Parallel node                          *)
(*   SpecWait     - one Wait node opened and ticked by two entities        *)
(*   SpecTyped    - values of several types read with the typed accessors  *)
(*   SpecTree     - a Priority tree ticked under two tree ids, next to     *)
(*                  plain Blackboard calls                                 *)
(***************************************************************************)
EXTENDS Integers, Sequences, FiniteSets, TLC

VARIABLES bb, store, calls, last, ret, nops,
          pc, persisted, pending, replayed,
          ppc, count, hasProp, propVal, maxN, idx, successed, executed, statuses, result,
          now, endTime, ent, boards, opened, ticked,
          panicked, written,
          tlast, tk

bbVars == <<bb, store, calls, last, ret, nops>>
hydVars == <<pc, persisted, pending, replayed>>
parVars == <<ppc, count, hasProp, propVal, maxN, idx, successed, executed, statuses, result>>
waitVars == <<now, endTime, ent, boards, opened, ticked>>
typedVars == <<panicked, written>>
treeVars == <<tlast, tk>>
extVars == <<waitVars, typedVars, treeVars>>
vars == <<bbVars, hydVars, parVars, extVars>>

(***************************************************************************)
(* Bounds and input domains                                                *)
(***************************************************************************)
\* longest sequence of Blackboard calls explored by Spec
MaxOps == 3
\* most entries the persisted Storage holds when NewBlackboard is called
MaxEntries == 2
\* most children of the Parallel node
MaxChildren == 3
\* longest MaxSuccessCount property string
MaxPropLen == 2
\* last instant of the millisecond clock
MaxTime == 3
\* longest configured duration of the Wait node
MaxDuration == 2
\* calls made on the Blackboard of SpecTyped
MaxTypedOps == 2
\* int64 and uint64 are modelled IntBits wide
IntBits == 3
\* ticks and calls made on the Blackboard of SpecTree
MaxTreeOps == 3

\* a stored value is an interface{}: its dynamic type and its value
Value(type, val) == [type |-> type, val |-> val]
\* Go's nil interface value (what a map lookup of an absent key yields)
Nil == Value("nil", 0)
\* what a call that panicked hands back: nothing
NoValue == Value("none", 0)
Keys == {"a", "b"}
\* the values callers store; nil is one of them
Values == {Value("int", 1), Nil}
\* tree and node ids; "" is the empty scope argument
TreeIds == {"t1", "t2"}
NodeIds == {"n1"}
TreeScopes == {""} \cup TreeIds
NodeScopes == {""} \cup NodeIds

EmptyMap == [x \in {} |-> x]

(***************************************************************************)
(* Memory: a map from string keys to values                                *)
(***************************************************************************)
NewMemory == EmptyMap

MemoryGet(m, key) == IF key \in DOMAIN m THEN m[key] ELSE Nil

\* faulty variant: Set that leaves an existing key untouched
MemorySetKeepsOld(m, key, val) ==
    IF key \in DOMAIN m THEN m
    ELSE [x \in DOMAIN m \cup {key} |-> IF x = key THEN val ELSE m[x]]

MemorySet(m, key, val) ==
    [x \in DOMAIN m \cup {key} |-> IF x = key THEN val ELSE m[x]]

\* faulty variant: Remove that empties the memory
MemoryRemoveClears(m, key) == NewMemory

MemoryRemove(m, key) == [x \in DOMAIN m \ {key} |-> m[x]]

(***************************************************************************)
(* TreeData and TreeMemory                                                 *)
(***************************************************************************)
NewTreeData ==
    [NodeMemory |-> NewMemory, OpenNodes |-> <<>>,
     TraversalDepth |-> 0, TraversalCycle |-> 0]

NewTreeMemory ==
    [Memory |-> NewMemory, _treeData |-> NewTreeData, _nodeMemory |-> EmptyMap]

(***************************************************************************)
(* The Storage collaborator: entries keyed by (key, treeScope, nodeScope). *)
(* The Blackboard only sees the interface; the entries are the reference   *)
(* behaviour of a store that keeps what it is given under the scope it is  *)
(* given.                                                                  *)
(***************************************************************************)
Triple(key, treeScope, nodeScope) == <<key, treeScope, nodeScope>>

StorageSet(s, key, value, treeScope, nodeScope) ==
    LET e == Triple(key, treeScope, nodeScope)
    IN  [x \in DOMAIN s \cup {e} |-> IF x = e THEN value ELSE s[x]]

StorageRemove(s, key, treeScope, nodeScope) ==
    [x \in DOMAIN s \ {Triple(key, treeScope, nodeScope)} |-> s[x]]

SetCall(key, value, treeScope, nodeScope) ==
    [op |-> "Set", key |-> key, value |-> value,
     treeScope |-> treeScope, nodeScope |-> nodeScope]

RemoveCall(key, treeScope, nodeScope) ==
    [op |-> "Remove", key |-> key, value |-> Nil,
     treeScope |-> treeScope, nodeScope |-> nodeScope]

(***************************************************************************)
(* Blackboard.  A Blackboard value b has the fields of the Go struct:      *)
(* _storage (TRUE when a Storage is attached), _baseMemory, _treeMemory.   *)
(* A world w == [bb, store, calls] pairs it with the Storage's entries and *)
(* the Storage calls made by the operation in progress.                    *)
(***************************************************************************)
World(b, s, c) == [bb |-> b, store |-> s, calls |-> c]

\* faulty variant: every access makes a new TreeMemory
_getTreeMemoryRecreate(tm, treeScope) ==
    [x \in DOMAIN tm \cup {treeScope} |->
        IF x = treeScope THEN NewTreeMemory ELSE tm[x]]

\* the tree-memory map after _getTreeMemory(treeScope): created when absent
_getTreeMemory(tm, treeScope) ==
    IF treeScope \in DOMAIN tm THEN tm
    ELSE [x \in DOMAIN tm \cup {treeScope} |->
             IF x = treeScope THEN NewTreeMemory ELSE tm[x]]

\* the tree memory after _getNodeMemory(treeMemory, nodeScope)
_getNodeMemory(treeMem, nodeScope) ==
    IF nodeScope \in DOMAIN treeMem._nodeMemory THEN treeMem
    ELSE [treeMem EXCEPT !._nodeMemory =
             [x \in DOMAIN treeMem._nodeMemory \cup {nodeScope} |->
                 IF x = nodeScope THEN NewMemory ELSE treeMem._nodeMemory[x]]]

\* a *Memory is modelled by the path to it
BaseRef == <<"base">>
TreeRef(treeScope) == <<"tree", treeScope>>
NodeRef(treeScope, nodeScope) == <<"node", treeScope, nodeScope>>

\* faulty variant: a node scope without a tree scope selects a tree memory
_getMemoryNodeScopeFirst(b, treeScope, nodeScope) ==
    IF nodeScope # "" /\ treeScope = ""
    THEN LET tm == _getTreeMemory(b._treeMemory, nodeScope)
         IN  [bb |-> [b EXCEPT !._treeMemory = tm], ref |-> TreeRef(nodeScope)]
    ELSE IF treeScope # ""
    THEN LET tm == _getTreeMemory(b._treeMemory, treeScope)
         IN  IF nodeScope # ""
             THEN [bb |-> [b EXCEPT !._treeMemory =
                              [tm EXCEPT ![treeScope] = _getNodeMemory(@, nodeScope)]],
                   ref |-> NodeRef(treeScope, nodeScope)]
             ELSE [bb |-> [b EXCEPT !._treeMemory = tm], ref |-> TreeRef(treeScope)]
    ELSE [bb |-> b, ref |-> BaseRef]

\* faulty variant: the node scope is ignored
_getMemoryTreeOnly(b, treeScope, nodeScope) ==
    IF treeScope # ""
    THEN [bb |-> [b EXCEPT !._treeMemory = _getTreeMemory(@, treeScope)],
          ref |-> TreeRef(treeScope)]
    ELSE [bb |-> b, ref |-> BaseRef]

\* faulty variant: every scope resolves to the global memory
_getMemoryGlobalOnly(b, treeScope, nodeScope) ==
    [bb |-> b, ref |-> BaseRef]

\* _getMemory: the Blackboard after the lazy creations, and the memory found
_getMemory(b, treeScope, nodeScope) ==
    IF treeScope # ""
    THEN LET tm == _getTreeMemory(b._treeMemory, treeScope)
         IN  IF nodeScope # ""
             THEN [bb |-> [b EXCEPT !._treeMemory =
                              [tm EXCEPT ![treeScope] = _getNodeMemory(@, nodeScope)]],
                   ref |-> NodeRef(treeScope, nodeScope)]
             ELSE [bb |-> [b EXCEPT !._treeMemory = tm], ref |-> TreeRef(treeScope)]
    ELSE [bb |-> b, ref |-> BaseRef]

\* the Memory a path points to
Deref(b, ref) ==
    IF ref[1] = "base" THEN b._baseMemory
    ELSE IF ref[1] = "tree" THEN b._treeMemory[ref[2]].Memory
    ELSE b._treeMemory[ref[2]]._nodeMemory[ref[3]]

\* the Blackboard with the Memory at a path replaced by m
Assign(b, ref, m) ==
    IF ref[1] = "base" THEN [b EXCEPT !._baseMemory = m]
    ELSE IF ref[1] = "tree" THEN [b EXCEPT !._treeMemory[ref[2]].Memory = m]
    ELSE [b EXCEPT !._treeMemory[ref[2]]._nodeMemory[ref[3]] = m]

\* faulty variant: Set that reports the global scope to the Storage
SetStorageGlobalScope(w, key, value, treeScope, nodeScope) ==
    LET g == _getMemory(w.bb, treeScope, nodeScope)
        b2 == Assign(g.bb, g.ref, MemorySet(Deref(g.bb, g.ref), key, value))
    IN  IF b2._storage
        THEN World(b2, StorageSet(w.store, key, value, "", ""),
                   Append(w.calls, SetCall(key, value, "", "")))
        ELSE World(b2, w.store, w.calls)

Set(w, key, value, treeScope, nodeScope) ==
    LET g == _getMemory(w.bb, treeScope, nodeScope)
        b2 == Assign(g.bb, g.ref, MemorySet(Deref(g.bb, g.ref), key, value))
    IN  IF b2._storage
        THEN World(b2, StorageSet(w.store, key, value, treeScope, nodeScope),
                   Append(w.calls, SetCall(key, value, treeScope, nodeScope)))
        ELSE World(b2, w.store, w.calls)

SetMem(w, key, value) ==
    LET g == _getMemory(w.bb, "", "")
        b2 == Assign(g.bb, g.ref, MemorySet(Deref(g.bb, g.ref), key, value))
    IN  IF b2._storage
        THEN World(b2, StorageSet(w.store, key, value, "", ""),
                   Append(w.calls, SetCall(key, value, "", "")))
        ELSE World(b2, w.store, w.calls)

Remove(w, key) ==
    LET g == _getMemory(w.bb, "", "")
        b2 == Assign(g.bb, g.ref, MemoryRemove(Deref(g.bb, g.ref), key))
    IN  IF b2._storage
        THEN World(b2, StorageRemove(w.store, key, "", ""),
                   Append(w.calls, RemoveCall(key, "", "")))
        ELSE World(b2, w.store, w.calls)

SetTree(w, key, value, treeScope) ==
    LET g == _getMemory(w.bb, treeScope, "")
        b2 == Assign(g.bb, g.ref, MemorySet(Deref(g.bb, g.ref), key, value))
    IN  IF b2._storage
        THEN World(b2, StorageSet(w.store, key, value, treeScope, ""),
                   Append(w.calls, SetCall(key, value, treeScope, "")))
        ELSE World(b2, w.store, w.calls)

\* faulty variant: every call hands out a new record
_getTreeDataFresh(b, treeScope) ==
    [bb |-> [b EXCEPT !._treeMemory = _getTreeMemory(@, treeScope)],
     tree |-> "", data |-> NewTreeData]

\* faulty variant: all trees share the record of the first tree
_getTreeDataShared(b, treeScope) ==
    LET b2 == [b EXCEPT !._treeMemory = _getTreeMemory(_getTreeMemory(@, treeScope), "t1")]
    IN  [bb |-> b2, tree |-> "t1", data |-> b2._treeMemory["t1"]._treeData]

\* _getTreeData: the Blackboard after the lazy creation and the *TreeData
\* found, given as the tree memory that holds it and its fields
_getTreeData(b, treeScope) ==
    LET b2 == [b EXCEPT !._treeMemory = _getTreeMemory(@, treeScope)]
    IN  [bb |-> b2, tree |-> treeScope, data |-> b2._treeMemory[treeScope]._treeData]

\* faulty variant: a read that takes the value out of the memory
GetAndForget(b, key, treeScope, nodeScope) ==
    LET g == _getMemory(b, treeScope, nodeScope)
    IN  [bb |-> Assign(g.bb, g.ref, MemoryRemove(Deref(g.bb, g.ref), key)),
         val |-> MemoryGet(Deref(g.bb, g.ref), key)]

\* Get: the value returned, and the Blackboard after the lazy creations
Get(b, key, treeScope, nodeScope) ==
    LET g == _getMemory(b, treeScope, nodeScope)
    IN  [bb |-> g.bb, val |-> MemoryGet(Deref(g.bb, g.ref), key)]

GetMem(b, key) ==
    LET g == _getMemory(b, "", "")
    IN  [bb |-> g.bb, val |-> MemoryGet(Deref(g.bb, g.ref), key)]

\* the Blackboard right after Initialize cleared it (before any replay)
Initialize(attached) ==
    [_storage |-> attached, _baseMemory |-> NewMemory, _treeMemory |-> EmptyMap]

(***************************************************************************)
(* Spec: calls on a Blackboard built over an empty Storage (or none)       *)
(***************************************************************************)
Op(op, key, value, treeScope, nodeScope) ==
    [op |-> op, key |-> key, value |-> value,
     treeScope |-> treeScope, nodeScope |-> nodeScope]

NoOp == Op("new", "", Nil, "", "")

HydIdle == pc = "idle" /\ persisted = EmptyMap /\ pending = {} /\ replayed = {}

WaitIdle ==
    /\ now = 0 /\ endTime = 0 /\ ent = EmptyMap /\ boards = EmptyMap
    /\ opened = EmptyMap /\ ticked = EmptyMap

TypedIdle == panicked = FALSE /\ written = {}

NoCall == [kind |-> "new", tree |-> "", node |-> ""]
NoTraversal == [tree |-> "", wasOpen |-> {}, events |-> <<>>, status |-> ""]

TreeIdle == tlast = NoCall /\ tk = NoTraversal

ExtIdle == WaitIdle /\ TypedIdle /\ TreeIdle

ParIdle ==
    /\ ppc = "idle" /\ count = 0 /\ hasProp = FALSE /\ propVal = <<>>
    /\ maxN = 0 /\ idx = 0 /\ successed = 0
    /\ executed = <<>> /\ statuses = <<>> /\ result = ""

Init ==
    /\ bb \in {Initialize(a) : a \in BOOLEAN}
    /\ store = EmptyMap
    /\ calls = <<>>
    /\ last = NoOp
    /\ ret = Nil
    /\ nops = 0
    /\ HydIdle
    /\ ParIdle
    /\ ExtIdle

Apply(w, op) ==
    /\ nops < MaxOps
    /\ nops' = nops + 1
    /\ bb' = w.bb
    /\ store' = w.store
    /\ calls' = w.calls
    /\ last' = op
    /\ UNCHANGED <<hydVars, parVars, extVars>>

Here == World(bb, store, <<>>)

DoSet ==
    \E k \in Keys, v \in Values, t \in TreeScopes, n \in NodeScopes :
        /\ Apply(Set(Here, k, v, t, n), Op("Set", k, v, t, n))
        /\ ret' = Nil

DoSetTree ==
    \E k \in Keys, v \in Values, t \in TreeScopes :
        /\ Apply(SetTree(Here, k, v, t), Op("SetTree", k, v, t, ""))
        /\ ret' = Nil

DoSetMem ==
    \E k \in Keys, v \in Values :
        /\ Apply(SetMem(Here, k, v), Op("SetMem", k, v, "", ""))
        /\ ret' = Nil

DoRemove ==
    \E k \in Keys :
        /\ Apply(Remove(Here, k), Op("Remove", k, Nil, "", ""))
        /\ ret' = Nil

DoGet ==
    \E k \in Keys, t \in TreeScopes, n \in NodeScopes :
        LET g == Get(bb, k, t, n)
        IN  /\ Apply(World(g.bb, store, <<>>), Op("Get", k, Nil, t, n))
            /\ ret' = g.val

DoGetMem ==
    \E k \in Keys :
        LET g == GetMem(bb, k)
        IN  /\ Apply(World(g.bb, store, <<>>), Op("GetMem", k, Nil, "", ""))
            /\ ret' = g.val

Next ==
    \/ DoSet
    \/ DoSetTree
    \/ DoSetMem
    \/ DoRemove
    \/ DoGet
    \/ DoGetMem

Spec == Init /\ [][Next]_vars

(***************************************************************************)
(* Blackboard claims, checked under Spec                                   *)
(***************************************************************************)
\* the scope a (treeScope, nodeScope) pair names: global, a tree, or a
\* node of a tree; an empty treeScope names the global scope
ScopeOf(treeScope, nodeScope) ==
    IF treeScope = "" THEN <<"global">>
    ELSE IF nodeScope = "" THEN <<"tree", treeScope>>
    ELSE <<"node", treeScope, nodeScope>>

\* the (key, value) entries of a Memory
MemoryEntries(m) == {<<k, m[k]>> : k \in DOMAIN m}

\* the (key, value) entries the Storage holds under one scope
StorageEntries(s, treeScope, nodeScope) ==
    {<<e[1], s[e]>> : e \in {x \in DOMAIN s : x[2] = treeScope /\ x[3] = nodeScope}}

\* the (key, value) entries the Blackboard holds in memory for a scope pair,
\* without creating anything
BlackboardEntries(b, treeScope, nodeScope) ==
    IF treeScope = "" THEN MemoryEntries(b._baseMemory)
    ELSE IF treeScope \notin DOMAIN b._treeMemory THEN {}
    ELSE IF nodeScope = "" THEN MemoryEntries(b._treeMemory[treeScope].Memory)
    ELSE IF nodeScope \notin DOMAIN b._treeMemory[treeScope]._nodeMemory THEN {}
    ELSE MemoryEntries(b._treeMemory[treeScope]._nodeMemory[nodeScope])

\* C1: for every key k, value v and scope pair (t, n), each of t and n
\* possibly empty, Set(k, v, t, n) immediately followed by Get(k, t, n)
\* returns v, from every reachable Blackboard state.
C1_SetGetRoundTrip ==
    \A k \in Keys, v \in Values, t \in TreeScopes, n \in NodeScopes :
        Get(Set(Here, k, v, t, n).bb, k, t, n).val = v

\* a Get at node scope reading back the value a Set stored there
C1_Witness ==
    /\ last.op = "Get" /\ last.treeScope = "t1" /\ last.nodeScope = "n1"
    /\ ret = Value("int", 1)
    /\ ret = bb._treeMemory["t1"]._nodeMemory["n1"][last.key]

\* C2 (as claimed): Set(k, v, "", n) behaves identically to SetMem(k, v):
\* the same resulting memory and the same effects on the Storage, with or
\* without a Storage attached.
C2_Original ==
    \A k \in Keys, v \in Values, n \in NodeIds :
        Set(Here, k, v, "", n) = SetMem(Here, k, v)

\* C2 (amended): Set(k, v, "", n) and SetMem(k, v) leave the same memory
\* contents; without a Storage they are identical; with a Storage each makes
\* exactly one Storage.Set call with the same key and value, Set passing the
\* scope ("", n) it was given and SetMem passing ("", "").
C2_SetNodeOnlyIsGlobalInMemory ==
    \A k \in Keys, v \in Values, n \in NodeIds :
        LET a == Set(Here, k, v, "", n)
            b == SetMem(Here, k, v)
        IN  /\ a.bb = b.bb
            /\ ~bb._storage => a = b
            /\ bb._storage =>
                  /\ a.calls = <<SetCall(k, v, "", n)>>
                  /\ b.calls = <<SetCall(k, v, "", "")>>
                  /\ a.store = StorageSet(store, k, v, "", n)
                  /\ b.store = StorageSet(store, k, v, "", "")

\* a Set with only a node scope has just written the global memory of a
\* Blackboard with a Storage, next to a tree memory holding the same key
C2_Witness ==
    /\ last.op = "Set" /\ last.treeScope = "" /\ last.nodeScope = "n1"
    /\ bb._storage
    /\ last.value # Nil
    /\ <<last.key, last.value>> \in MemoryEntries(bb._baseMemory)
    /\ DOMAIN bb._treeMemory # {}

\* C3: a Set, SetTree or SetMem at one scope never changes the value Get
\* returns for any key at a different scope (global, each tree, and each
\* (tree, node) pair being distinct scopes).
C3_ScopesIsolated ==
    [][last'.op \in {"Set", "SetTree", "SetMem"} =>
          \A k \in Keys, t \in TreeScopes, n \in NodeScopes :
              ScopeOf(t, n) # ScopeOf(last'.treeScope, last'.nodeScope) =>
                  Get(bb', k, t, n).val = Get(bb, k, t, n).val]_vars

\* a node-scoped Set of a key the enclosing tree and the global memory hold
\* with another value
C3_Witness ==
    /\ last.op = "Set" /\ last.treeScope = "t1" /\ last.nodeScope = "n1"
    /\ last.value = Nil
    /\ Get(bb, last.key, "t1", "").val # Nil
    /\ Get(bb, last.key, "", "").val # Nil
    /\ Get(bb, last.key, "t1", "n1").val = Nil

\* the Storage call each mutating Blackboard call has to make
ExpectedCalls(o) ==
    IF o.op = "Set" THEN <<SetCall(o.key, o.value, o.treeScope, o.nodeScope)>>
    ELSE IF o.op = "SetTree" THEN <<SetCall(o.key, o.value, o.treeScope, "")>>
    ELSE IF o.op = "SetMem" THEN <<SetCall(o.key, o.value, "", "")>>
    ELSE IF o.op = "Remove" THEN <<RemoveCall(o.key, "", "")>>
    ELSE <<>>

\* with a Storage attached, each mutating call made exactly its one call
StorageCalledOnce == bb._storage => calls = ExpectedCalls(last)

\* C4 (as claimed): with a Storage attached every mutating call invokes it
\* exactly once with the key, value and scope the call was given, and so the
\* Storage's entries and the in-memory entries agree scope by scope.
C4_Original ==
    /\ StorageCalledOnce
    /\ bb._storage =>
          \A t \in TreeScopes, n \in NodeScopes :
              StorageEntries(store, t, n) = BlackboardEntries(bb, t, n)

\* C4 (amended): with a Storage attached every mutating call invokes it
\* exactly once with the key, value and scope the call was given; the
\* Storage's entries and the in-memory entries agree at every tree scope and
\* every (tree, node) scope, and at the global scope as long as no Set was
\* given an empty tree scope with a non-empty node scope (such a Set writes
\* the global memory and is recorded by the Storage under ("", n), which is
\* exactly when the Storage holds an entry under such a scope).
C4_StorageMirrorsWrites ==
    /\ StorageCalledOnce
    /\ bb._storage =>
          /\ \A t \in TreeIds, n \in NodeScopes :
                 StorageEntries(store, t, n) = BlackboardEntries(bb, t, n)
          /\ (\A e \in DOMAIN store : e[2] = "" => e[3] = "") =>
                 StorageEntries(store, "", "") = BlackboardEntries(bb, "", "")

\* a Remove reached the Storage that already holds tree and node entries
C4_Witness ==
    /\ bb._storage
    /\ last.op = "Remove"
    /\ calls = <<RemoveCall(last.key, "", "")>>
    /\ \E e \in DOMAIN store : e[2] # "" /\ e[3] # ""
    /\ \E e \in DOMAIN store : e[2] # "" /\ e[3] = ""

(***************************************************************************)
(* SpecHydrate: NewBlackboard(storage) over a Storage that already holds   *)
(* entries.  Initialize clears the memories and asks the Storage to replay *)
(* its entries; the callback stores each one, which calls the Storage      *)
(* again.  Foreach visits every entry present when it starts, in any       *)
(* order; it may hand over the value as it was then or as it is at the     *)
(* visit, and may or may not visit entries added during the replay.        *)
(***************************************************************************)
PersistedValues == {Value("int", 1), Value("int", 2)}
Triples == Keys \X TreeScopes \X NodeScopes

\* the Storages of at most MaxEntries entries
PersistedStores ==
    UNION {[d -> PersistedValues] :
              d \in {x \in SUBSET Triples : Cardinality(x) <= MaxEntries}}

Entry(key, value, treeScope, nodeScope) ==
    [key |-> key, value |-> value, treeScope |-> treeScope, nodeScope |-> nodeScope]

\* faulty variant: the callback without its tree-scope branch
InitializeVisitNoTreeBranch(w, key, value, treeScope, nodeScope) ==
    IF treeScope # "" /\ nodeScope # ""
    THEN Set(w, key, value, treeScope, nodeScope)
    ELSE SetMem(w, key, value)

\* the callback Initialize hands to Foreach
InitializeVisit(w, key, value, treeScope, nodeScope) ==
    IF treeScope # "" /\ nodeScope # ""
    THEN Set(w, key, value, treeScope, nodeScope)
    ELSE IF treeScope # ""
    THEN SetTree(w, key, value, treeScope)
    ELSE SetMem(w, key, value)

BbIdle ==
    /\ store = EmptyMap /\ calls = <<>> /\ last = NoOp /\ ret = Nil /\ nops = 0

HydrateInit ==
    /\ \E attached \in BOOLEAN :
          /\ bb = Initialize(attached)
          /\ persisted \in IF attached THEN PersistedStores ELSE {EmptyMap}
    /\ store = persisted
    /\ calls = <<>> /\ last = NoOp /\ ret = Nil /\ nops = 0
    /\ pc = "new"
    /\ pending = {}
    /\ replayed = {}
    /\ ParIdle
    /\ ExtIdle

\* NewBlackboard up to the call of Foreach
NewBlackboard ==
    /\ pc = "new"
    /\ bb' = Initialize(bb._storage)
    /\ IF bb._storage
       THEN pc' = "foreach" /\ pending' = DOMAIN store
       ELSE pc' = "ready" /\ pending' = {}
    /\ UNCHANGED <<store, calls, last, ret, nops, persisted, replayed, parVars, extVars>>

Visit(e, value) ==
    LET w == InitializeVisit(World(bb, store, calls), e[1], value, e[2], e[3])
    IN  /\ bb' = w.bb
        /\ store' = w.store
        /\ calls' = w.calls
        /\ replayed' = replayed \cup {Entry(e[1], value, e[2], e[3])}
        /\ UNCHANGED <<last, ret, nops, pc, persisted, parVars, extVars>>

\* Foreach hands over an entry that was there when it started
ForeachVisit ==
    /\ pc = "foreach"
    /\ \E e \in pending :
          /\ \E value \in {persisted[e], store[e]} : Visit(e, value)
          /\ pending' = pending \ {e}

\* Foreach hands over an entry the replay itself added
ForeachVisitAdded ==
    /\ pc = "foreach"
    /\ \E e \in DOMAIN store \ DOMAIN persisted :
          /\ \A r \in replayed : Triple(r.key, r.treeScope, r.nodeScope) # e
          /\ Visit(e, store[e])
          /\ UNCHANGED pending

\* Foreach, Initialize and NewBlackboard return
ForeachReturn ==
    /\ pc = "foreach"
    /\ pending = {}
    /\ pc' = "ready"
    /\ UNCHANGED <<bbVars, persisted, pending, replayed, parVars, extVars>>

HydrateNext ==
    \/ NewBlackboard
    \/ ForeachVisit
    \/ ForeachVisitAdded
    \/ ForeachReturn

SpecHydrate == HydrateInit /\ [][HydrateNext]_vars

\* no two persisted entries share a key and the scope their pair names
EffectivelyDistinct(p) ==
    \A e1 \in DOMAIN p, e2 \in DOMAIN p :
        (e1[1] = e2[1] /\ ScopeOf(e1[2], e1[3]) = ScopeOf(e2[2], e2[3])) => e1 = e2

\* C5 (as claimed): after NewBlackboard(storage) returns, for every entry
\* (key, value, treeScope, nodeScope) that Foreach replayed, Get(key,
\* treeScope, nodeScope) returns that value, for any persisted entries with
\* pairwise distinct triples, entries with an empty treeScope and a
\* non-empty nodeScope included.
C5_Original ==
    pc = "ready" =>
        \A r \in replayed : Get(bb, r.key, r.treeScope, r.nodeScope).val = r.value

\* C5 (amended): after NewBlackboard(storage) returns, every persisted entry
\* was replayed and Get returns the value of every replayed entry, for any
\* persisted entries no two of which share a key and an effective scope,
\* an entry with an empty treeScope having the global scope whatever its
\* nodeScope.
C5_HydrationMatchesStorage ==
    (pc = "ready" /\ EffectivelyDistinct(persisted)) =>
        /\ \A r \in replayed : Get(bb, r.key, r.treeScope, r.nodeScope).val = r.value
        /\ \A e \in DOMAIN persisted :
               /\ Entry(e[1], persisted[e], e[2], e[3]) \in replayed
               /\ Get(bb, e[1], e[2], e[3]).val = persisted[e]

\* a Blackboard hydrated from a node-only entry and a tree-scoped entry
C5_Witness ==
    /\ pc = "ready"
    /\ EffectivelyDistinct(persisted)
    /\ Cardinality(DOMAIN persisted) = MaxEntries
    /\ \E e \in DOMAIN persisted : e[2] = "" /\ e[3] # ""
    /\ \E e \in DOMAIN persisted : e[2] # "" /\ bb._treeMemory[e[2]].Memory # EmptyMap

(***************************************************************************)
(* SpecParallel: one OnTick of a Parallel node with count children.  Each  *)
(* child's Execute returns any of the four statuses.  The MaxSuccessCount  *)
(* property is absent or a string, modelled as a sequence of characters.   *)
(***************************************************************************)
SUCCESS == "SUCCESS"
FAILURE == "FAILURE"
RUNNING == "RUNNING"
ERROR == "ERROR"
Status == {SUCCESS, FAILURE, RUNNING, ERROR}

Digits == {"0", "1", "2", "3", "4", "5", "6", "7", "8", "9"}
DigitValue(c) ==
    CASE c = "0" -> 0 [] c = "1" -> 1 [] c = "2" -> 2 [] c = "3" -> 3
      [] c = "4" -> 4 [] c = "5" -> 5 [] c = "6" -> 6 [] c = "7" -> 7
      [] c = "8" -> 8 [] c = "9" -> 9

\* the characters property strings are drawn from
Alphabet == {"-", "+", "0", "2", "4", "a"}
PropStrings == UNION {[1..n -> Alphabet] : n \in 0..MaxPropLen}

\* the decimal value of a string of digits, left to right
RECURSIVE DecimalValue(_, _)
DecimalValue(s, acc) ==
    IF s = <<>> THEN acc
    ELSE DecimalValue(Tail(s), acc * 10 + DigitValue(Head(s)))

\* strconv.Atoi on the strings of the model (all far shorter than the int
\* range): an optional sign, then one or more decimal digits; anything else
\* is a syntax error and yields 0
Atoi(s) ==
    LET signed == s # <<>> /\ Head(s) \in {"+", "-"}
        body == IF signed THEN Tail(s) ELSE s
    IN  IF body = <<>> \/ \E i \in 1..Len(body) : body[i] \notin Digits
        THEN [val |-> 0, err |-> TRUE]
        ELSE [val |-> IF signed /\ Head(s) = "-"
                      THEN 0 - DecimalValue(body, 0)
                      ELSE DecimalValue(body, 0),
              err |-> FALSE]

\* faulty variant: Atoi's error is ignored
ThresholdIgnoringErr(n, ok, v) ==
    IF ok THEN Atoi(v).val ELSE n

\* maxN as OnTick computes it from the child count and the property
Threshold(n, ok, v) ==
    IF ok
    THEN LET a == Atoi(v) IN IF ~a.err THEN a.val ELSE n
    ELSE n

\* faulty variant: the loop stops after a child that failed
LoopConditionShortCircuit(i, n, sts) ==
    i < n /\ (IF sts = <<>> THEN TRUE ELSE sts[Len(sts)] # FAILURE)

\* the for loop's condition
LoopCondition(i, n, sts) == i < n

\* faulty variant: every status but FAILURE is counted
CountNonFailure(acc, status) ==
    IF status # FAILURE THEN acc + 1 ELSE acc

\* the loop body's update of successed
CountSuccess(acc, status) ==
    IF status = SUCCESS THEN acc + 1 ELSE acc

\* faulty variant: the threshold has to be exceeded
OnTickResultStrict(acc, threshold) ==
    IF acc > threshold THEN SUCCESS ELSE FAILURE

\* the status OnTick returns after the loop
OnTickResult(acc, threshold) ==
    IF acc >= threshold THEN SUCCESS ELSE FAILURE

ParallelInit ==
    /\ count \in 0..MaxChildren
    /\ hasProp \in BOOLEAN
    /\ propVal \in IF hasProp THEN PropStrings ELSE {<<>>}
    /\ ppc = "start"
    /\ maxN = 0 /\ idx = 0 /\ successed = 0
    /\ executed = <<>> /\ statuses = <<>> /\ result = ""
    /\ bb = Initialize(FALSE)
    /\ BbIdle
    /\ HydIdle
    /\ ExtIdle

\* OnTick up to the loop: the child count and the threshold
OnTickBegin ==
    /\ ppc = "start"
    /\ maxN' = Threshold(count, hasProp, propVal)
    /\ successed' = 0
    /\ idx' = 0
    /\ ppc' = "loop"
    /\ UNCHANGED <<count, hasProp, propVal, executed, statuses, result, bbVars, hydVars, extVars>>

\* one iteration: child idx is executed and returns some status
ExecuteChild ==
    /\ ppc = "loop"
    /\ LoopCondition(idx, count, statuses)
    /\ \E status \in Status :
          /\ executed' = Append(executed, idx)
          /\ statuses' = Append(statuses, status)
          /\ successed' = CountSuccess(successed, status)
    /\ idx' = idx + 1
    /\ UNCHANGED <<ppc, count, hasProp, propVal, maxN, result, bbVars, hydVars, extVars>>

\* the loop is over: OnTick returns
OnTickReturn ==
    /\ ppc = "loop"
    /\ ~LoopCondition(idx, count, statuses)
    /\ result' = OnTickResult(successed, maxN)
    /\ ppc' = "done"
    /\ UNCHANGED <<count, hasProp, propVal, maxN, idx, successed, executed, statuses,
                   bbVars, hydVars, extVars>>

ParallelNext ==
    \/ OnTickBegin
    \/ ExecuteChild
    \/ OnTickReturn

SpecParallel == ParallelInit /\ [][ParallelNext]_vars

(***************************************************************************)
(* Parallel claims, checked under SpecParallel                             *)
(***************************************************************************)
\* the child indexes 0..n-1 in order
IndexOrder(n) == [j \in 1..n |-> j - 1]

\* how many of the statuses are SUCCESS
NumSuccess(sts) == Cardinality({j \in 1..Len(sts) : sts[j] = SUCCESS})

\* the string is an integer literal: an optional sign and then digits
IsIntegerLiteral(s) ==
    \E k \in 0..1 :
        /\ Len(s) > k
        /\ k = 1 => s[1] \in {"+", "-"}
        /\ \A i \in (k + 1)..Len(s) : s[i] \in Digits

\* the status OnTick returns for the given child statuses and threshold
RECURSIVE TickResult(_, _, _)
TickResult(sts, acc, threshold) ==
    IF sts = <<>> THEN OnTickResult(acc, threshold)
    ELSE TickResult(Tail(sts), CountSuccess(acc, Head(sts)), threshold)

\* C6: one OnTick of a Parallel executes every child exactly once, in index
\* order 0..count-1, whatever the children return and whatever the
\* threshold is.
C6_EveryChildOnceInOrder ==
    /\ ppc = "loop" => executed = IndexOrder(idx)
    /\ ppc = "done" => executed = IndexOrder(count) /\ Len(statuses) = count

\* all children ran although the first failed and the threshold was met late
C6_Witness ==
    /\ ppc = "done" /\ count = MaxChildren /\ count >= 3
    /\ statuses[1] = FAILURE /\ statuses[2] = ERROR /\ statuses[3] = SUCCESS
    /\ hasProp /\ maxN = 0
    /\ executed = IndexOrder(count)

\* C7: OnTick returns SUCCESS iff the number of children that returned
\* SUCCESS is at least the threshold, and FAILURE otherwise, never RUNNING;
\* [SUCCESS, FAILURE, SUCCESS] gives FAILURE with no threshold configured
\* and SUCCESS with threshold 2.
C7_SuccessIffThresholdMet ==
    ppc = "done" =>
        /\ result \in {SUCCESS, FAILURE}
        /\ result = SUCCESS <=> NumSuccess(statuses) >= maxN
        /\ statuses = <<SUCCESS, FAILURE, SUCCESS>> =>
              /\ ~hasProp => result = FAILURE
              /\ (hasProp /\ propVal = <<"2">>) => result = SUCCESS

\* threshold 2 met by two successes next to a RUNNING child
C7_Witness ==
    /\ ppc = "done"
    /\ statuses = <<SUCCESS, RUNNING, SUCCESS>>
    /\ hasProp /\ propVal = <<"2">>
    /\ result = SUCCESS

\* C8: when MaxSuccessCount is missing or is not parseable as an integer,
\* the threshold is the child count (all children must succeed) and no
\* error status results.
C8_MalformedThresholdFallsBack ==
    (ppc # "start" /\ (~hasProp \/ ~IsIntegerLiteral(propVal))) =>
        /\ maxN = count
        /\ ppc = "done" =>
              /\ result \in {SUCCESS, FAILURE}
              /\ result = SUCCESS <=> \A j \in 1..count : statuses[j] = SUCCESS

\* an unparseable property on a node whose children all succeeded
C8_Witness ==
    /\ ppc = "done" /\ hasProp /\ propVal = <<"2", "a">>
    /\ count = MaxChildren
    /\ result = SUCCESS

\* C9 (as claimed): a configured threshold below 1 or above the child count
\* falls back to "require all": SUCCESS exactly when every child returned
\* SUCCESS.
C9_OutOfRangeFallsBack ==
    (ppc = "done" /\ hasProp /\ ~Atoi(propVal).err
        /\ (Atoi(propVal).val < 1 \/ Atoi(propVal).val > count)) =>
        (result = SUCCESS <=> \A j \in 1..count : statuses[j] = SUCCESS)

\* C10 (as claimed): the status a Parallel returns when a child returns
\* ERROR differs from the status of the same tick with that child
\* returning FAILURE instead.
C10_Original ==
    ppc = "done" =>
        \A j \in 1..count :
            statuses[j] = ERROR =>
                TickResult([statuses EXCEPT ![j] = FAILURE], 0, maxN) # result

\* C10 (amended): a Parallel treats a child's ERROR as a FAILURE: the status
\* it returns when a child returns ERROR is the status of the same tick with
\* that child returning FAILURE instead, and is never ERROR.
C10_ErrorCountsAsFailure ==
    ppc = "done" =>
        /\ result # ERROR
        /\ \A j \in 1..count :
               statuses[j] = ERROR =>
                   TickResult([statuses EXCEPT ![j] = FAILURE], 0, maxN) = result

\* a tick that failed because one child returned ERROR
C10_Witness ==
    /\ ppc = "done" /\ count >= 2
    /\ statuses[1] = SUCCESS /\ statuses[2] = ERROR
    /\ maxN = 2
    /\ result = FAILURE

(***************************************************************************)
(* Typed accessors.  A typed getter reads through Get, returns the type's  *)
(* zero value for nil, and asserts the dynamic type otherwise; a failed    *)
(* assertion panics.  bool values are 0 (false) and 1 (true).              *)
(***************************************************************************)
Zero(type) == Value(type, 0)

\* faulty variant: a value of another type is handed back as it is
TypeAssertUnchecked(g, type) ==
    IF g.val = Nil THEN [bb |-> g.bb, val |-> Zero(type), panic |-> FALSE]
    ELSE [bb |-> g.bb, val |-> g.val, panic |-> FALSE]

\* v.(T) after the nil test: the result carries the Blackboard after Get's
\* lazy creations, the value returned and whether the assertion panicked
TypeAssert(g, type) ==
    IF g.val = Nil THEN [bb |-> g.bb, val |-> Zero(type), panic |-> FALSE]
    ELSE IF g.val.type = type THEN [bb |-> g.bb, val |-> g.val, panic |-> FALSE]
    ELSE [bb |-> g.bb, val |-> NoValue, panic |-> TRUE]

GetFloat64(b, key, treeScope, nodeScope) ==
    TypeAssert(Get(b, key, treeScope, nodeScope), "float64")

GetBool(b, key, treeScope, nodeScope) ==
    TypeAssert(Get(b, key, treeScope, nodeScope), "bool")

GetInt(b, key, treeScope, nodeScope) ==
    TypeAssert(Get(b, key, treeScope, nodeScope), "int")

GetInt64(b, key, treeScope, nodeScope) ==
    TypeAssert(Get(b, key, treeScope, nodeScope), "int64")

GetUInt64(b, key, treeScope, nodeScope) ==
    TypeAssert(Get(b, key, treeScope, nodeScope), "uint64")

GetInt32(b, key, treeScope, nodeScope) ==
    TypeAssert(Get(b, key, treeScope, nodeScope), "int32")

\* int64(tvalue) of a uint64 and uint64(tvalue) of an int64, IntBits wide
ToInt64(u) == IF u >= 2^(IntBits - 1) THEN u - 2^IntBits ELSE u
ToUInt64(i) == i % (2^IntBits)

\* faulty variant: an int64 is accepted as well
ReadNumberToInt64AnyInteger(v) ==
    IF v.type = "uint64" THEN [val |-> Value("int64", ToInt64(v.val)), panic |-> FALSE]
    ELSE IF v.type = "int64" THEN [val |-> v, panic |-> FALSE]
    ELSE [val |-> NoValue, panic |-> TRUE]

ReadNumberToInt64(v) ==
    IF v.type = "uint64" THEN [val |-> Value("int64", ToInt64(v.val)), panic |-> FALSE]
    ELSE [val |-> NoValue, panic |-> TRUE]

ReadNumberToUInt64(v) ==
    IF v.type = "int64" THEN [val |-> Value("uint64", ToUInt64(v.val)), panic |-> FALSE]
    ELSE [val |-> NoValue, panic |-> TRUE]

GetInt64Safe(b, key, treeScope, nodeScope) ==
    LET g == Get(b, key, treeScope, nodeScope)
    IN  IF g.val = Nil THEN [bb |-> g.bb, val |-> Zero("int64"), panic |-> FALSE]
        ELSE [bb |-> g.bb] @@ ReadNumberToInt64(g.val)

GetUInt64Safe(b, key, treeScope, nodeScope) ==
    LET g == Get(b, key, treeScope, nodeScope)
    IN  IF g.val = Nil THEN [bb |-> g.bb, val |-> Zero("uint64"), panic |-> FALSE]
        ELSE [bb |-> g.bb] @@ ReadNumberToUInt64(g.val)

(***************************************************************************)
(* SpecWait: one Wait node instance (id WaitId, duration endTime) opened   *)
(* and ticked by two entities on an integer millisecond clock.  The two    *)
(* entities use either two Blackboards with the same tree id or one        *)
(* Blackboard with two tree ids.  An entity's node is opened before it is  *)
(* ticked and is closed by the tick that returns SUCCESS (the lifecycle of *)
(* section 4.1 of the specification).                                      *)
(***************************************************************************)
WaitId == "n1"
Ents == {"e1", "e2"}
NotOpen == 0 - 1
NoTick == [at |-> NotOpen, start |-> NotOpen, status |-> ""]

\* the two ways two entities share the node
EntLayouts ==
    {[e \in Ents |-> [board |-> IF e = "e1" THEN 1 ELSE 2, tree |-> "t1"]],
     [e \in Ents |-> [board |-> 1, tree |-> IF e = "e1" THEN "t1" ELSE "t2"]]}

\* Wait.OnOpen at time t
WaitOnOpen(w, tree, id, t) ==
    Set(w, "startTime", Value("int64", t), tree, id)

\* Wait.OnTick at time t: the Blackboard after it and the status returned
WaitOnTick(b, tree, id, wait, t) ==
    LET g == GetInt64(b, "startTime", tree, id)
    IN  [bb |-> g.bb, panic |-> g.panic,
         status |-> IF t - g.val.val > wait THEN SUCCESS ELSE RUNNING]

WaitInit ==
    /\ now = 0
    /\ endTime \in 0..MaxDuration
    /\ ent \in EntLayouts
    /\ boards = [i \in 1..2 |-> Initialize(FALSE)]
    /\ opened = [e \in Ents |-> NotOpen]
    /\ ticked = [e \in Ents |-> NoTick]
    /\ bb = Initialize(FALSE)
    /\ BbIdle
    /\ HydIdle
    /\ ParIdle
    /\ TypedIdle
    /\ TreeIdle

\* a millisecond passes
ClockTick ==
    /\ now < MaxTime
    /\ now' = now + 1
    /\ UNCHANGED <<endTime, ent, boards, opened, ticked, bbVars, hydVars, parVars, typedVars, treeVars>>

\* an entity's tree opens the node
EntOnOpen ==
    \E e \in Ents :
        /\ opened[e] = NotOpen
        /\ LET w == WaitOnOpen(World(boards[ent[e].board], EmptyMap, <<>>),
                               ent[e].tree, WaitId, now)
           IN  boards' = [boards EXCEPT ![ent[e].board] = w.bb]
        /\ opened' = [opened EXCEPT ![e] = now]
        /\ UNCHANGED <<now, endTime, ent, ticked, bbVars, hydVars, parVars, typedVars, treeVars>>

\* an entity's tree ticks the open node
EntOnTick ==
    \E e \in Ents :
        /\ opened[e] # NotOpen
        /\ LET r == WaitOnTick(boards[ent[e].board], ent[e].tree, WaitId, endTime, now)
           IN  /\ ~r.panic
               /\ boards' = [boards EXCEPT ![ent[e].board] = r.bb]
               /\ ticked' = [ticked EXCEPT ![e] =
                                [at |-> now, start |-> opened[e], status |-> r.status]]
               /\ opened' = [opened EXCEPT ![e] =
                                IF r.status = RUNNING THEN @ ELSE NotOpen]
        /\ UNCHANGED <<now, endTime, ent, bbVars, hydVars, parVars, typedVars, treeVars>>

WaitNext ==
    \/ ClockTick
    \/ EntOnOpen
    \/ EntOnTick

SpecWait == WaitInit /\ [][WaitNext]_vars

\* C11 (as claimed): OnOpen records the current time as startTime under
\* (tree id, node id); every OnTick with elapsed = now - startTime < D
\* returns RUNNING and every OnTick with elapsed >= D returns SUCCESS.
C11_WaitElapsed ==
    \A e \in Ents :
        /\ opened[e] # NotOpen =>
              Get(boards[ent[e].board], "startTime", ent[e].tree, WaitId).val
                  = Value("int64", opened[e])
        /\ ticked[e] # NoTick =>
              /\ ticked[e].at - ticked[e].start < endTime => ticked[e].status = RUNNING
              /\ ticked[e].at - ticked[e].start >= endTime => ticked[e].status = SUCCESS

\* the status an entity's last tick has when the entity runs alone: OnOpen at
\* its own open time on a fresh Blackboard, then OnTick at the tick's time
SoloStatus(e) ==
    LET w == WaitOnOpen(World(Initialize(FALSE), EmptyMap, <<>>),
                        ent[e].tree, WaitId, ticked[e].start)
    IN  WaitOnTick(w.bb, ent[e].tree, WaitId, endTime, ticked[e].at).status

\* C16: when two entities (two Blackboards, or two tree ids on one
\* Blackboard) open and tick the same Wait node in any interleaving, every
\* OnTick result of an entity is the one it gets when it runs alone with the
\* same OnOpen time, clock and duration.
C16_WaitPerEntity ==
    \A e \in Ents : ticked[e] # NoTick => ticked[e].status = SoloStatus(e)

\* both entities share one Blackboard, e2 opened after e1 and before e1's
\* tick, and the two ticks ended differently
C16_Witness ==
    /\ ent["e1"].board = ent["e2"].board
    /\ ticked["e1"] # NoTick /\ ticked["e2"] # NoTick
    /\ ticked["e1"].start < ticked["e2"].start
    /\ ticked["e2"].start <= ticked["e1"].at
    /\ ticked["e1"].status = SUCCESS
    /\ ticked["e2"].status = RUNNING

(***************************************************************************)
(* SpecTyped: values of several dynamic types are stored under one key at  *)
(* the global, a tree and a node scope and read back with the typed and    *)
(* the Safe accessors, Get and GetMem.  A panic ends the run.  written is   *)
(* the set of scopes a Set was made at.                                    *)
(***************************************************************************)
TypedKey == "a"
TypedScopes == {<<"", "">>, <<"t1", "">>, <<"t1", "n1">>}
TypedValues ==
    {Value("int64", 1), Value("int64", 0 - 2^(IntBits - 1)),
     Value("uint64", 1), Value("uint64", 2^IntBits - 1),
     Value("int", 1), Value("int32", 1), Value("float64", 1), Value("bool", 1), Nil}

TypedInit ==
    /\ bb \in {Initialize(a) : a \in BOOLEAN}
    /\ BbIdle
    /\ HydIdle
    /\ ParIdle
    /\ WaitIdle
    /\ TreeIdle
    /\ TypedIdle

\* a getter call: the Blackboard after Get, the value handed back, and the
\* panic, after which nothing runs
CallTyped(name, r, sc) ==
    /\ ~panicked
    /\ nops < MaxTypedOps
    /\ nops' = nops + 1
    /\ bb' = r.bb
    /\ panicked' = r.panic
    /\ last' = Op(name, TypedKey, Nil, sc[1], sc[2])
    /\ calls' = <<>>
    /\ UNCHANGED <<store, written, hydVars, parVars, waitVars, treeVars>>

TypedSet ==
    \E v \in TypedValues, sc \in TypedScopes :
        LET w == Set(Here, TypedKey, v, sc[1], sc[2])
        IN  /\ ~panicked
            /\ nops < MaxTypedOps
            /\ nops' = nops + 1
            /\ bb' = w.bb /\ store' = w.store /\ calls' = w.calls
            /\ last' = Op("Set", TypedKey, v, sc[1], sc[2])
            /\ ret' = Nil
            /\ written' = written \cup {ScopeOf(sc[1], sc[2])}
            /\ UNCHANGED <<panicked, hydVars, parVars, waitVars, treeVars>>

TypedGet ==
    \E sc \in TypedScopes :
        LET g == Get(bb, TypedKey, sc[1], sc[2])
        IN  /\ CallTyped("Get", [bb |-> g.bb, panic |-> FALSE], sc)
            /\ ret' = g.val

TypedGetMem ==
    LET g == GetMem(bb, TypedKey)
    IN  /\ CallTyped("GetMem", [bb |-> g.bb, panic |-> FALSE], <<"", "">>)
        /\ ret' = g.val

DoGetFloat64 ==
    \E sc \in TypedScopes :
        LET r == GetFloat64(bb, TypedKey, sc[1], sc[2])
        IN  /\ CallTyped("GetFloat64", r, sc)
            /\ ret' = r.val

DoGetBool ==
    \E sc \in TypedScopes :
        LET r == GetBool(bb, TypedKey, sc[1], sc[2])
        IN  /\ CallTyped("GetBool", r, sc)
            /\ ret' = r.val

DoGetInt ==
    \E sc \in TypedScopes :
        LET r == GetInt(bb, TypedKey, sc[1], sc[2])
        IN  /\ CallTyped("GetInt", r, sc)
            /\ ret' = r.val

DoGetInt32 ==
    \E sc \in TypedScopes :
        LET r == GetInt32(bb, TypedKey, sc[1], sc[2])
        IN  /\ CallTyped("GetInt32", r, sc)
            /\ ret' = r.val

DoGetInt64 ==
    \E sc \in TypedScopes :
        LET r == GetInt64(bb, TypedKey, sc[1], sc[2])
        IN  /\ CallTyped("GetInt64", r, sc)
            /\ ret' = r.val

DoGetUInt64 ==
    \E sc \in TypedScopes :
        LET r == GetUInt64(bb, TypedKey, sc[1], sc[2])
        IN  /\ CallTyped("GetUInt64", r, sc)
            /\ ret' = r.val

DoGetInt64Safe ==
    \E sc \in TypedScopes :
        LET r == GetInt64Safe(bb, TypedKey, sc[1], sc[2])
        IN  /\ CallTyped("GetInt64Safe", r, sc)
            /\ ret' = r.val

DoGetUInt64Safe ==
    \E sc \in TypedScopes :
        LET r == GetUInt64Safe(bb, TypedKey, sc[1], sc[2])
        IN  /\ CallTyped("GetUInt64Safe", r, sc)
            /\ ret' = r.val

TypedNext ==
    \/ TypedSet
    \/ TypedGet
    \/ TypedGetMem
    \/ DoGetFloat64
    \/ DoGetBool
    \/ DoGetInt
    \/ DoGetInt32
    \/ DoGetInt64
    \/ DoGetUInt64
    \/ DoGetInt64Safe
    \/ DoGetUInt64Safe

SpecTyped == TypedInit /\ [][TypedNext]_vars

\* the type each typed accessor asserts
AccessorType ==
    [GetFloat64 |-> "float64", GetBool |-> "bool", GetInt |-> "int",
     GetInt32 |-> "int32", GetInt64 |-> "int64", GetUInt64 |-> "uint64"]

\* the value held under a key at a scope pair, nil when the key or the
\* scope's memory is absent; nothing is created
StoredValue(b, key, treeScope, nodeScope) ==
    LET es == {e \in BlackboardEntries(b, treeScope, nodeScope) : e[1] = key}
    IN  IF es = {} THEN Nil ELSE (CHOOSE e \in es : TRUE)[2]

\* C12: GetFloat64, GetBool, GetInt, GetInt32, GetInt64 and GetUInt64 return
\* the stored value when it has exactly the accessor's type, the type's zero
\* value when the key is absent or holds nil, and abort, returning no value
\* and changing no state, when the stored value has any other type.
C12_TypedAccessors ==
    [][(last'.op \in DOMAIN AccessorType /\ nops' = nops + 1) =>
          LET stored == StoredValue(bb, last'.key, last'.treeScope, last'.nodeScope)
              type == AccessorType[last'.op]
          IN  /\ stored = Nil => (ret' = Value(type, 0) /\ ~panicked')
              /\ (stored # Nil /\ stored.type = type) => (ret' = stored /\ ~panicked')
              /\ (stored # Nil /\ stored.type # type) =>
                    /\ panicked'
                    /\ ret' = NoValue
                    /\ bb' = bb
                    /\ store' = store]_vars

\* GetInt aborted on a stored int64
C12_Witness ==
    /\ panicked
    /\ last.op = "GetInt"
    /\ StoredValue(bb, last.key, last.treeScope, last.nodeScope).type = "int64"

\* C19: GetInt64Safe returns 0 when the key is absent, the uint64's value
\* converted to int64 when a uint64 is stored, and aborts for every other
\* stored type, a stored int64 included; GetUInt64Safe returns 0 when
\* absent, converts a stored int64 (a negative value wraps modulo 2^IntBits,
\* the model's 2^64) and aborts for every other type, a stored uint64
\* included.
C19_SafeAccessorsCrossSignedness ==
    [][(last'.op \in {"GetInt64Safe", "GetUInt64Safe"} /\ nops' = nops + 1) =>
          LET stored == StoredValue(bb, last'.key, last'.treeScope, last'.nodeScope)
              toSigned == last'.op = "GetInt64Safe"
              from == IF toSigned THEN "uint64" ELSE "int64"
              to == IF toSigned THEN "int64" ELSE "uint64"
              lo == IF toSigned THEN 0 - 2^(IntBits - 1) ELSE 0
          IN  /\ stored = Nil => (ret' = Value(to, 0) /\ ~panicked')
              /\ (stored # Nil /\ stored.type = from) =>
                    /\ ~panicked'
                    /\ ret'.type = to
                    /\ ret'.val \in lo..(lo + 2^IntBits - 1)
                    /\ (ret'.val - stored.val) % (2^IntBits) = 0
              /\ (stored # Nil /\ stored.type # from) =>
                    (panicked' /\ ret' = NoValue)]_vars

\* GetUInt64Safe wrapped a stored negative int64
C19_Witness ==
    /\ last.op = "GetUInt64Safe"
    /\ ~panicked
    /\ StoredValue(bb, last.key, last.treeScope, last.nodeScope)
           = Value("int64", 0 - 2^(IntBits - 1))
    /\ ret = Value("uint64", 2^(IntBits - 1))

(***************************************************************************)
(* SpecTree: one tree definition, a Priority root with two leaves, ticked  *)
(* under two tree ids on one Blackboard without a Storage, next to plain   *)
(* Blackboard calls.  BehaviorTree.Tick, Execute and Priority follow       *)
(* sections 4.1 to 4.3 of the specification; a traversal's open list holds *)
(* the nodes it entered and did not close.  The open flag of a node is the *)
(* bool "isOpen" in its node memory, the open list is TreeData.OpenNodes.  *)
(* A tick runs to completion (section 6 of the specification), so it is    *)
(* one step.                                                               *)
(***************************************************************************)
Root == "p"
Children == <<"c0", "c1">>
True == Value("bool", 1)
False == Value("bool", 0)
TreeKey == "a"
TreeValue == Value("int", 1)
CallScopes == {<<"", "">>, <<"t1", "">>, <<"t2", "c1">>}

Range(f) == {f[i] : i \in DOMAIN f}
Without(seq, n) == SelectSeq(seq, LAMBDA x : x # n)
\* the element of a singleton set; {e(x) : x \in {v}} computes v once
The(S) == CHOOSE x \in S : TRUE

\* the traversal context: the Blackboard, the open list, the hooks run
Context(b) == [bb |-> b, open |-> <<>>, events |-> <<>>]
Hook(ctx, hook, n) == [ctx EXCEPT !.events = Append(@, <<hook, n>>)]

EnterNode(ctx, n) == [Hook(ctx, "Enter", n) EXCEPT !.open = Append(@, n)]

OpenNode(ctx, t, n) ==
    IF GetBool(ctx.bb, "isOpen", t, n).val = True THEN ctx
    ELSE [Hook(ctx, "Open", n) EXCEPT
             !.bb = Set(World(ctx.bb, EmptyMap, <<>>), "isOpen", True, t, n).bb]

CloseNode(ctx, t, n) ==
    [Hook(ctx, "Close", n) EXCEPT
        !.bb = Set(World(ctx.bb, EmptyMap, <<>>), "isOpen", False, t, n).bb,
        !.open = Without(@, n)]

\* Execute from the Tick hook's status on: Close on a terminal status, Exit
FinishNode(ctx, t, n, status) ==
    Hook(IF status # RUNNING THEN CloseNode(ctx, t, n) ELSE ctx, "Exit", n)

\* Execute of a leaf whose Tick hook returns status
ExecuteLeaf(ctx, t, n, status) ==
    The({FinishNode(ticked_, t, n, status) :
            ticked_ \in {Hook(opened_, "Tick", n) :
                opened_ \in {OpenNode(entered, t, n) :
                    entered \in {EnterNode(ctx, n)}}}})

\* Priority's Tick hook from child i on: the context and the status
RECURSIVE PriorityTick(_, _, _, _)
PriorityTick(ctx, t, i, sts) ==
    IF i > Len(Children) THEN [ctx |-> ctx, status |-> FAILURE]
    ELSE The({IF sts[i] # FAILURE THEN [ctx |-> c, status |-> sts[i]]
              ELSE PriorityTick(c, t, i + 1, sts) :
                 c \in {ExecuteLeaf(ctx, t, Children[i], sts[i])}})

\* Execute of the root
ExecuteRoot(ctx, t, sts) ==
    The({[ctx |-> FinishNode(r.ctx, t, Root, r.status), status |-> r.status] :
            r \in {PriorityTick(ticked_, t, 1, sts) :
                ticked_ \in {Hook(opened_, "Tick", Root) :
                    opened_ \in {OpenNode(entered, t, Root) :
                        entered \in {EnterNode(ctx, Root)}}}}})

\* the nodes of prev[1..i] that are not in the new list are closed, last first
RECURSIVE CloseAbandoned(_, _, _, _, _)
CloseAbandoned(ctx, t, prev, curr, i) ==
    IF i = 0 THEN ctx
    ELSE The({CloseAbandoned(c, t, prev, curr, i - 1) :
                 c \in {IF prev[i] \in Range(curr) THEN ctx
                        ELSE CloseNode(ctx, t, prev[i])}})

\* the record _getTreeData handed out is written
StoreTreeData(g, data) ==
    IF g.tree = "" THEN g.bb
    ELSE [g.bb EXCEPT !._treeMemory[g.tree]._treeData = data]

\* Tick, last part: the new open list is stored into TreeData
Populate(run, done, t) ==
    The({[bb |-> StoreTreeData(g, [g.data EXCEPT !.OpenNodes = run.ctx.open,
                                                 !.TraversalDepth = 2,
                                                 !.TraversalCycle = @ + 1]),
          events |-> done.events,
          status |-> run.status] :
            g \in {_getTreeData(done.bb, t)}})

\* Tick, after the root traversal: the abandoned nodes are closed
Reconcile(prev, run, t) ==
    The({Populate(run, done, t) :
            done \in {CloseAbandoned(run.ctx, t, prev.data.OpenNodes, run.ctx.open,
                                     Len(prev.data.OpenNodes))}})

\* Tick, the root traversal
Traverse(prev, t, sts) ==
    The({Reconcile(prev, run, t) :
            run \in {ExecuteRoot(Context(prev.bb), t, sts)}})

\* BehaviorTree.Tick of tree t with the statuses the leaves return
TreeTick(b, t, sts) ==
    The({Traverse(prev, t, sts) : prev \in {_getTreeData(b, t)}})

\* the statuses the leaves a Priority executes can return: every leaf before
\* the last one executed fails
LeafOutcomes ==
    {<<s>> : s \in Status \ {FAILURE}} \cup {<<FAILURE, s>> : s \in Status}

TreeInit ==
    /\ bb = Initialize(FALSE)
    /\ BbIdle
    /\ HydIdle
    /\ ParIdle
    /\ WaitIdle
    /\ TypedIdle
    /\ TreeIdle

Call(kind, t, n) == [kind |-> kind, tree |-> t, node |-> n]

\* a step of SpecTree: the Blackboard it leaves and what was called
TreeStep(b, call) ==
    /\ nops < MaxTreeOps
    /\ nops' = nops + 1
    /\ bb' = b
    /\ tlast' = call
    /\ UNCHANGED <<store, calls, last, ret, hydVars, parVars, waitVars, typedVars>>

\* the nodes of tree t whose open flag is set
OpenFlagged(b, t) ==
    {n \in {Root} \cup Range(Children) :
        <<"isOpen", True>> \in BlackboardEntries(b, t, n)}

DoTick ==
    \E t \in TreeIds, sts \in LeafOutcomes :
        \E r \in {TreeTick(bb, t, sts)} :
            /\ TreeStep(r.bb, Call("Tick", t, ""))
            /\ tk' = [tree |-> t, wasOpen |-> OpenFlagged(bb, t),
                      events |-> r.events, status |-> r.status]

TreeSet ==
    \E sc \in CallScopes :
        /\ TreeStep(Set(Here, TreeKey, TreeValue, sc[1], sc[2]).bb, Call("Set", sc[1], sc[2]))
        /\ UNCHANGED tk

TreeSetTree ==
    \E t \in TreeIds :
        /\ TreeStep(SetTree(Here, TreeKey, TreeValue, t).bb, Call("SetTree", t, ""))
        /\ UNCHANGED tk

TreeSetMem ==
    /\ TreeStep(SetMem(Here, TreeKey, TreeValue).bb, Call("SetMem", "", ""))
    /\ UNCHANGED tk

TreeRemove ==
    /\ TreeStep(Remove(Here, TreeKey).bb, Call("Remove", "", ""))
    /\ UNCHANGED tk

TreeGet ==
    \E sc \in CallScopes :
        /\ TreeStep(Get(bb, TreeKey, sc[1], sc[2]).bb, Call("Get", sc[1], sc[2]))
        /\ UNCHANGED tk

TreeGetInt ==
    \E sc \in CallScopes :
        /\ TreeStep(GetInt(bb, TreeKey, sc[1], sc[2]).bb, Call("GetInt", sc[1], sc[2]))
        /\ UNCHANGED tk

TreeGetTreeData ==
    \E t \in TreeIds :
        /\ TreeStep(_getTreeData(bb, t).bb, Call("_getTreeData", t, ""))
        /\ UNCHANGED tk

TreeInitialize ==
    /\ TreeStep(Initialize(bb._storage), Call("Initialize", "", ""))
    /\ UNCHANGED tk

TreeNext ==
    \/ DoTick
    \/ TreeSet
    \/ TreeSetTree
    \/ TreeSetMem
    \/ TreeRemove
    \/ TreeGet
    \/ TreeGetInt
    \/ TreeGetTreeData
    \/ TreeInitialize

SpecTree == TreeInit /\ [][TreeNext]_vars

\* the TreeData of a tree id: a tree id without a TreeMemory has the record
\* its first access creates
TreeDataOf(b, t) ==
    IF t \in DOMAIN b._treeMemory THEN b._treeMemory[t]._treeData ELSE NewTreeData

\* the positions of a hook of a node among the hooks of the last tick
HookAt(hook, n) == {i \in DOMAIN tk.events : tk.events[i] = <<hook, n>>}

\* the nodes that were open before the last tick and that it did not execute
Abandoned == {n \in tk.wasOpen : HookAt("Tick", n) = {}}

\* C13: a node that was open (RUNNING) at the end of a tree's tick and is
\* not executed during the tree's next tick, a higher-priority sibling
\* ending the Priority first, has its Close hook run during that tick's
\* reconciliation, after the root traversal, and is not in the open-node
\* list kept in the tree's TreeData after the tick.
C13_AbandonedBranchCloses ==
    tlast.kind = "Tick" =>
        \A n \in Abandoned :
            /\ \E i \in HookAt("Close", n) : \A j \in HookAt("Exit", Root) : j < i
            /\ n \notin Range(TreeDataOf(bb, tk.tree).OpenNodes)

\* the second leaf was left RUNNING and the first leaf now returned SUCCESS
C13_Witness ==
    /\ tlast.kind = "Tick"
    /\ tk.status = SUCCESS
    /\ "c1" \in Abandoned
    /\ HookAt("Tick", "c0") # {}
    /\ HookAt("Close", "c1") # {}

\* whether a call writes key k of the memory at scope (t, n); n = "" is the
\* tree's own Memory
Writes(call, t, n, k) ==
    \/ call.kind = "Set" /\ call.tree = t /\ call.node = n /\ k = TreeKey
    \/ call.kind = "SetTree" /\ call.tree = t /\ n = "" /\ k = TreeKey
    \/ call.kind = "Tick" /\ call.tree = t /\ n # "" /\ k = "isOpen"

\* memory m2 still holds every key of m, with the value it had unless the
\* call wrote that key there
Kept(m, m2, call, t, n) ==
    \A k \in DOMAIN m : k \in DOMAIN m2 /\ (m2[k] # m[k] => Writes(call, t, n, k))

\* C14: across Set, SetTree, SetMem, Remove, Get, the typed getters and
\* _getTreeData (and the ticks built from them) the tree ids that have a
\* TreeMemory and the (tree, node) pairs that have a node Memory only grow;
\* an existing TreeMemory, TreeData and node Memory stays the one found for
\* its id, its contents never reset (a value changes only by a write to its
\* key at its scope, TreeData only by its tree's tick); Initialize alone
\* replaces them.
C14_MemoriesLazyNeverDestroyed ==
    [][nops' = nops + 1 =>
          IF tlast'.kind = "Initialize"
          THEN bb'._treeMemory = EmptyMap /\ bb'._baseMemory = NewMemory
          ELSE \A t \in DOMAIN bb._treeMemory :
                  /\ t \in DOMAIN bb'._treeMemory
                  /\ (tlast'.kind = "Tick" /\ tlast'.tree = t)
                        \/ bb'._treeMemory[t]._treeData = bb._treeMemory[t]._treeData
                  /\ Kept(bb._treeMemory[t].Memory, bb'._treeMemory[t].Memory,
                          tlast', t, "")
                  /\ \A n \in DOMAIN bb._treeMemory[t]._nodeMemory :
                        /\ n \in DOMAIN bb'._treeMemory[t]._nodeMemory
                        /\ Kept(bb._treeMemory[t]._nodeMemory[n],
                                bb'._treeMemory[t]._nodeMemory[n], tlast', t, n)]_vars

\* a Get created the node memory (t2, c1) of a tree that a tick left with
\* open nodes and that holds the key in its tree memory
C14_Witness ==
    /\ tlast = Call("Get", "t2", "c1")
    /\ "t2" \in DOMAIN bb._treeMemory
    /\ "c1" \in DOMAIN bb._treeMemory["t2"]._nodeMemory
    /\ bb._treeMemory["t2"]._nodeMemory["c1"] = NewMemory
    /\ bb._treeMemory["t2"]._treeData.OpenNodes # <<>>
    /\ "t1" \in DOMAIN bb._treeMemory
    /\ TreeKey \in DOMAIN bb._treeMemory["t1"].Memory

\* C15: _getTreeData hands out a different record for different tree ids,
\* so a tick of one tree never changes the OpenNodes, TraversalDepth or
\* TraversalCycle of another; and no Set, SetTree, SetMem, Remove, Get or
\* typed getter, at any scope, changes any tree's TreeData.
C15_TreeDataPerTree ==
    [][nops' = nops + 1 =>
          /\ \A t \in TreeIds, u \in TreeIds :
                 t # u => _getTreeData(bb, t).tree # _getTreeData(bb, u).tree
          /\ tlast'.kind = "Tick" =>
                 \A t \in TreeIds \ {tlast'.tree} : TreeDataOf(bb', t) = TreeDataOf(bb, t)
          /\ tlast'.kind \in {"Set", "SetTree", "SetMem", "Remove", "Get", "GetInt",
                              "_getTreeData"} =>
                 \A t \in TreeIds : TreeDataOf(bb', t) = TreeDataOf(bb, t)]_vars

\* tree t2 was ticked to the end while tree t1 keeps open nodes
C15_Witness ==
    /\ tlast = Call("Tick", "t2", "")
    /\ TreeDataOf(bb, "t2").OpenNodes = <<>>
    /\ TreeDataOf(bb, "t2").TraversalCycle = 1
    /\ TreeDataOf(bb, "t1").OpenNodes = <<Root, "c1">>
    /\ TreeDataOf(bb, "t1").TraversalCycle = 2

\* C17: Remove(k) acts on the global scope only: after it GetMem(k) returns
\* nil, also when k was absent before; every other global key keeps its
\* value; every tree-scoped and node-scoped entry, those under the same key
\* k included, is unchanged; and no call removes a key from a tree or node
\* memory.
C17_RemoveGlobalOnly ==
    [][nops' = nops + 1 =>
          /\ last'.op = "Remove" =>
                /\ GetMem(bb', last'.key).val = Nil
                /\ BlackboardEntries(bb', "", "")
                      = {e \in BlackboardEntries(bb, "", "") : e[1] # last'.key}
                /\ \A t \in TreeIds, n \in NodeScopes :
                      BlackboardEntries(bb', t, n) = BlackboardEntries(bb, t, n)
          /\ \A t \in TreeIds, n \in NodeScopes :
                \A e \in BlackboardEntries(bb, t, n) :
                    \E f \in BlackboardEntries(bb', t, n) : f[1] = e[1]]_vars

\* a Remove of a key that a tree memory holds too, next to another global key
C17_Witness ==
    /\ last.op = "Remove"
    /\ bb._storage
    /\ \E e \in BlackboardEntries(bb, "t1", "") : e[1] = last.key /\ e[2] # Nil
    /\ \E e \in BlackboardEntries(bb, "", "") : e[1] # last.key /\ e[2] # Nil
    /\ \A e \in BlackboardEntries(bb, "", "") : e[1] # last.key

\* the reading calls of SpecTyped
Reads ==
    {"Get", "GetMem", "GetInt64Safe", "GetUInt64Safe"} \cup DOMAIN AccessorType

\* C18: Get, GetMem and the typed getters never call the Storage and never
\* change the value a later Get returns at any scope, also when the read
\* names a tree or node scope that did not exist and is created empty by
\* it; a Get of a key never set at its scope returns nil.
C18_ReadsArePure ==
    [][(last'.op \in Reads /\ nops' = nops + 1) =>
          /\ calls' = <<>>
          /\ store' = store
          /\ \A k \in Keys, t \in TreeScopes, n \in NodeScopes :
                /\ Get(bb', k, t, n).val = Get(bb, k, t, n).val
                /\ StoredValue(bb', k, t, n) = StoredValue(bb, k, t, n)
          /\ (/\ last'.op \in {"Get", "GetMem"}
              /\ ScopeOf(last'.treeScope, last'.nodeScope) \notin written)
                => ret' = Nil]_vars

\* with a Storage attached, a Get at a node scope that did not exist
\* created its empty memory and returned nil, the tree memory holding the key
C18_Witness ==
    /\ bb._storage
    /\ last.op = "Get" /\ last.treeScope = "t1" /\ last.nodeScope = "n1"
    /\ ret = Nil
    /\ written = {ScopeOf("t1", "")}
    /\ bb._treeMemory["t1"]._nodeMemory["n1"] = NewMemory
    /\ StoredValue(bb, TypedKey, "t1", "") # Nil
    /\ store # EmptyMap

====
